---- MODULE Spec2Model ----
(***************************************************************************)
(* Model of the NerdMiner TFT display client                               *)
(* (esp32/nerdminer_display/nerdminer_display.ino): Wi-Fi bring-up, one    *)
(* NTP sync, the 45 s poll gate, fetchStatus (HTTP + JSON extraction into  *)
(* the global last_state) and drawScreen.                                  *)
(***************************************************************************)
EXTENDS Integers, Sequences, FiniteSets, TLC

VARIABLES pc, link, polls, ntp_epoch, uptime, last_poll, last_state,
          screen, boot_log, ev, iters, poll_up, fails, attempt

vars == <<pc, link, polls, ntp_epoch, uptime, last_poll, last_state,
          screen, boot_log, ev, iters, poll_up, fails, attempt>>

(***************************************************************************)
(* Program constants.                                                      *)
(***************************************************************************)
JSON_BUF_SIZE == 4096
POLL_INTERVAL_MS == 45000
HTTP_CODE_OK == 200
SERVICE_SLOTS == 4
TIMEZONE_OFFSET_SECONDS == 0
WIFI_POLL_DELAY_MS == 500
LOOP_DELAY_MS == 200
NTP_WAIT_MS == 5000

(***************************************************************************)
(* Bounds of the model.  millis() is an unsigned long; the counter is kept *)
(* MillisBits wide so that its wraparound is reachable.                    *)
(***************************************************************************)
MillisBits == 17
MaxPolls == 2
MaxIter == 4
MaxFails == 3

MillisMod == 2 ^ MillisBits

\* unsigned long subtraction a - b
USub(a, b) == (a - b + MillisMod) % MillisMod

\* millis(): the wrapped millisecond counter at true uptime u
Millis(u) == u % MillisMod

(***************************************************************************)
(* JSON values as ArduinoJson sees them: a type tag and a payload.         *)
(***************************************************************************)
JNull == [t |-> "null", v |-> ""]
JStr(s) == [t |-> "string", v |-> s]
JNum(s) == [t |-> "number", v |-> s]
JBool(b) == [t |-> "bool", v |-> IF b THEN "true" ELSE "false"]
JArr(items) == [t |-> "array", items |-> items]
JNoArr == [t |-> "null", items |-> <<>>]

\* variant: a number is converted to text instead of taking the default
OrStr_CoerceNumber(j, dflt) == IF j.t \in {"string", "number"} THEN j.v ELSE dflt

\* variant | "default" : the string when the variant holds one
OrStr(j, dflt) == IF j.t = "string" THEN j.v ELSE dflt

\* variant | false : the boolean when the variant holds one
OrFalse(j) == IF j.t = "bool" THEN j.v = "true" ELSE FALSE

\* (const char*)variant : null pointer unless the variant holds a string
IsCStr(j) == j.t = "string"

\* String((const char*)variant) : a null pointer gives the empty String
CStrToString(j) == IF j.t = "string" THEN j.v ELSE ""

\* doc["services"].as<JsonArray>() : a null array iterates zero times
AsJsonArray(j) == IF j.t = "array" THEN j.items ELSE <<>>

(***************************************************************************)
(* sscanf(server_time, "%d-%d-%dT%d:%d:%d", ...) and mktime.               *)
(***************************************************************************)
Ch(s, i) == IF i >= 1 /\ i <= Len(s) THEN SubSeq(s, i, i) ELSE ""

Digits == {"0", "1", "2", "3", "4", "5", "6", "7", "8", "9"}

DigitVal(c) ==
  CASE c = "0" -> 0 [] c = "1" -> 1 [] c = "2" -> 2 [] c = "3" -> 3
    [] c = "4" -> 4 [] c = "5" -> 5 [] c = "6" -> 6 [] c = "7" -> 7
    [] c = "8" -> 8 [] c = "9" -> 9

RECURSIVE SkipSpace(_, _)
SkipSpace(s, i) == IF Ch(s, i) = " " THEN SkipSpace(s, i + 1) ELSE i

RECURSIVE ScanDigits(_, _, _)
ScanDigits(s, i, acc) ==
  IF Ch(s, i) \in Digits
    THEN ScanDigits(s, i + 1, acc * 10 + DigitVal(Ch(s, i)))
    ELSE [v |-> acc, i |-> i]

\* one %d conversion at position i: leading blanks, optional sign, digits
ScanInt(s, i) ==
  LET j == SkipSpace(s, i)
      neg == Ch(s, j) = "-"
      k == IF Ch(s, j) \in {"-", "+"} THEN j + 1 ELSE j
  IN IF Ch(s, k) \in Digits
       THEN LET r == ScanDigits(s, k, 0)
            IN [ok |-> TRUE, v |-> IF neg THEN 0 - r.v ELSE r.v, i |-> r.i]
       ELSE [ok |-> FALSE, v |-> 0, i |-> k]

ServerTimeFormat == <<"%d", "-", "%d", "-", "%d", "T", "%d", ":", "%d", ":", "%d">>

\* walks the format; vals are the conversions stored so far
RECURSIVE ScanFormat(_, _, _, _)
ScanFormat(s, i, k, vals) ==
  IF k > Len(ServerTimeFormat) THEN vals
  ELSE IF ServerTimeFormat[k] = "%d"
    THEN LET r == ScanInt(s, i)
         IN IF r.ok THEN ScanFormat(s, r.i, k + 1, Append(vals, r.v)) ELSE vals
    ELSE IF Ch(s, i) = ServerTimeFormat[k]
           THEN ScanFormat(s, i + 1, k + 1, vals)
           ELSE vals

\* the values sscanf stored; its return value is their number
Sscanf(s) == ScanFormat(s, 1, 1, <<>>)

\* days from 1970-01-01 to the civil date; month and day may be out of range
DaysFromCivil(year, mon, mday) ==
  LET m0 == mon - 1
      yy == year + (m0 \div 12)
      mm == (m0 % 12) + 1
      y == IF mm <= 2 THEN yy - 1 ELSE yy
      era == y \div 400
      yoe == y - era * 400
      mp == (mm + 9) % 12
      doy == (153 * mp + 2) \div 5
      doe == yoe * 365 + (yoe \div 4) - (yoe \div 100) + doy
  IN era * 146097 + doe - 719468 + (mday - 1)

\* mktime of the struct tm filled at lines 196-202 (tm_isdst = 0)
Mktime(year, mon, mday, hour, min, sec) ==
  DaysFromCivil(year, mon, mday) * 86400 + hour * 3600 + min * 60 + sec
    - TIMEZONE_OFFSET_SECONDS

(***************************************************************************)
(* StatusState and the global last_state.                                  *)
(***************************************************************************)
Slots == 0 .. (SERVICE_SLOTS - 1)

EmptyItem == [name |-> "", is_up |-> FALSE]

StatusState ==
  [bottom_line |-> "", word |-> "", services |-> [i \in Slots |-> EmptyItem],
   service_count |-> 0, server_time |-> 0, expr_state |-> "", expr_message |-> ""]

(***************************************************************************)
(* fetchStatus(out).  A response is what the network answers to this       *)
(* attempt: whether http.begin succeeds, the status code, whether the body *)
(* is well-formed JSON, the pool bytes its document needs, and the         *)
(* document deserializeJson would build.                                   *)
(***************************************************************************)
DeserializeJson(resp) ==
  IF ~resp.wellformed THEN "InvalidInput"
  ELSE IF resp.need > JSON_BUF_SIZE THEN "NoMemory"
  ELSE "Ok"

\* variant: the cap test is off by one, a fifth entry is counted
RECURSIVE FillServices_OffByOne(_, _, _)
FillServices_OffByOne(out, items, k) ==
  IF k > Len(items) THEN out
  ELSE IF out.service_count > SERVICE_SLOTS THEN out
  ELSE FillServices_OffByOne(
         [out EXCEPT !.services = [i \in Slots |->
                          IF i = out.service_count
                            THEN [name |-> CStrToString(items[k].name),
                                  is_up |-> OrFalse(items[k].is_up)]
                            ELSE out.services[i]],
                     !.service_count = out.service_count + 1],
         items, k + 1)

\* lines 182-189: the first SERVICE_SLOTS entries overwrite slots 0..
RECURSIVE FillServices(_, _, _)
FillServices(out, items, k) ==
  IF k > Len(items) THEN out
  ELSE IF out.service_count >= SERVICE_SLOTS THEN out
  ELSE FillServices(
         [out EXCEPT !.services[out.service_count] =
                        [name |-> CStrToString(items[k].name),
                         is_up |-> OrFalse(items[k].is_up)],
                     !.service_count = out.service_count + 1],
         items, k + 1)

\* lines 191-205
ParseServerTime(out, j) ==
  IF IsCStr(j)
    THEN LET f == Sscanf(j.v)
         IN IF Len(f) = 6
              THEN [out EXCEPT !.server_time = Mktime(f[1], f[2], f[3], f[4], f[5], f[6])]
              ELSE out
    ELSE out

\* lines 177-205
Extract(out, doc) ==
  LET o1 == [out EXCEPT !.bottom_line = OrStr(doc.bottom_line, "All good"),
                        !.word = OrStr(doc.word, "None"),
                        !.expr_state = OrStr(doc.expr_state, "idle"),
                        !.expr_message = OrStr(doc.expr_message, ""),
                        !.service_count = 0]
      o2 == FillServices(o1, AsJsonArray(doc.services), 1)
  IN ParseServerTime(o2, doc.server_time)

\* variant: a JSON error resets the snapshot before reporting failure
fetchStatus_ResetOnJsonError(out, resp) ==
  IF ~resp.begin THEN [ok |-> FALSE, out |-> out]
  ELSE IF resp.code # HTTP_CODE_OK THEN [ok |-> FALSE, out |-> out]
  ELSE IF DeserializeJson(resp) # "Ok" THEN [ok |-> FALSE, out |-> StatusState]
  ELSE [ok |-> TRUE, out |-> Extract(out, resp.doc)]

fetchStatus(out, resp) ==
  IF ~resp.begin THEN [ok |-> FALSE, out |-> out]
  ELSE IF resp.code # HTTP_CODE_OK THEN [ok |-> FALSE, out |-> out]
  ELSE IF DeserializeJson(resp) # "Ok" THEN [ok |-> FALSE, out |-> out]
  ELSE [ok |-> TRUE, out |-> Extract(out, resp.doc)]

(***************************************************************************)
(* drawScreen(state, offline).  now is time(nullptr) at the call.  The     *)
(* result is what the panel shows; offline records the argument.           *)
(***************************************************************************)
MINERVA_DEBUG == 0
LocalIP == "192.168.1.50"

formatTwo(v) == IF v < 10 THEN "0" \o ToString(v) ELSE ToString(v)

\* localtime_r: broken-down local time of the epoch value t
Localtime(t) ==
  LET lt == t + TIMEZONE_OFFSET_SECONDS
      days == lt \div 86400
      rem == lt % 86400
      z == days + 719468
      era == z \div 146097
      doe == z - era * 146097
      yoe == (doe - (doe \div 1460) + (doe \div 36524) - (doe \div 146096)) \div 365
      doy == doe - (365 * yoe + (yoe \div 4) - (yoe \div 100))
      mp == (5 * doy + 2) \div 153
  IN [tm_hour |-> rem \div 3600, tm_min |-> (rem % 3600) \div 60, tm_sec |-> rem % 60,
      tm_mday |-> doy - ((153 * mp + 2) \div 5) + 1,
      tm_mon |-> (IF mp < 10 THEN mp + 3 ELSE mp - 9) - 1]

\* variant: the cut keeps one character less than the budget
Truncate_OneShort(s, n) == IF Len(s) > n THEN SubSeq(s, 1, n - 1) ELSE s

\* substring(0, n) when the text is longer than n
Truncate(s, n) == IF Len(s) > n THEN SubSeq(s, 1, n) ELSE s

\* variant: the clock shows the captured server time itself
DrawClock_ServerTime(state, now) ==
  IF state.server_time # 0
    THEN LET tm == Localtime(state.server_time)
         IN <<formatTwo(tm.tm_hour) \o ":" \o formatTwo(tm.tm_min),
              formatTwo(tm.tm_mday) \o "/" \o formatTwo(tm.tm_mon + 1)>>
    ELSE <<"No time">>

\* lines 71-82
DrawClock(state, now) ==
  IF state.server_time # 0
    THEN LET t == state.server_time + (now - state.server_time)
             tm == Localtime(t)
         IN <<formatTwo(tm.tm_hour) \o ":" \o formatTwo(tm.tm_min),
              formatTwo(tm.tm_mday) \o "/" \o formatTwo(tm.tm_mon + 1)>>
    ELSE <<"No time">>

\* variant: "error" is not among the alarmed states
drawFace_ErrorIsDefault(stateName) ==
  IF stateName = "warning" THEN ":O"
  ELSE IF stateName = "thinking" THEN ":|"
  ELSE IF stateName = "happy" THEN ":)"
  ELSE "._"

\* lines 85-98
drawFace(stateName) ==
  IF stateName = "warning" \/ stateName = "error" THEN ":O"
  ELSE IF stateName = "thinking" THEN ":|"
  ELSE IF stateName = "happy" THEN ":)"
  ELSE "._"

\* variant: the rows are drawn last service first
DrawRows_Reversed(state) ==
  LET n == IF state.service_count < SERVICE_SLOTS THEN state.service_count ELSE SERVICE_SLOTS
  IN [i \in 1 .. n |->
        [icon |-> IF state.services[n - i].is_up THEN "UP" ELSE "DN",
         color |-> IF state.services[n - i].is_up THEN "TFT_GREEN" ELSE "TFT_RED",
         name |-> Truncate(state.services[n - i].name, 16)]]

\* lines 104-116: one row per counted service
DrawRows(state) ==
  LET n == IF state.service_count < SERVICE_SLOTS THEN state.service_count ELSE SERVICE_SLOTS
  IN [i \in 1 .. n |->
        [icon |-> IF state.services[i - 1].is_up THEN "UP" ELSE "DN",
         color |-> IF state.services[i - 1].is_up THEN "TFT_GREEN" ELSE "TFT_RED",
         name |-> Truncate(state.services[i - 1].name, 16)]]

\* lines 132-141
DrawFooter(offline, now) ==
  IF MINERVA_DEBUG # 0
    THEN LET t == Localtime(now)
         IN <<IF offline THEN "IP: API offline" ELSE "IP: " \o LocalIP,
              "Upd: " \o formatTwo(t.tm_hour) \o ":" \o formatTwo(t.tm_min)
                \o ":" \o formatTwo(t.tm_sec)>>
    ELSE <<>>

\* variant: the stored bottom line is drawn also when offline
drawScreen_BottomAlwaysStored(state, offline, now) ==
  [drawn |-> TRUE,
   offline |-> offline,
   clock |-> DrawClock(state, now),
   face |-> drawFace(state.expr_state),
   rows |-> DrawRows(state),
   no_services |-> state.service_count = 0,
   bottom |-> Truncate(state.bottom_line, 22),
   wordline |-> Truncate("Word: " \o state.word, 22),
   footer |-> DrawFooter(offline, now)]

\* lines 67-142: what the panel shows after the call
drawScreen(state, offline, now) ==
  [drawn |-> TRUE,
   offline |-> offline,
   clock |-> DrawClock(state, now),
   face |-> drawFace(state.expr_state),
   rows |-> DrawRows(state),
   no_services |-> state.service_count = 0,
   bottom |-> Truncate(IF offline THEN "API offline" ELSE state.bottom_line, 22),
   wordline |-> Truncate("Word: " \o state.word, 22),
   footer |-> DrawFooter(offline, now)]

\* the panel after tft.fillScreen(TFT_BLACK) in setup
BlankScreen ==
  [drawn |-> FALSE, offline |-> FALSE, clock |-> <<>>, face |-> "", rows |-> <<>>,
   no_services |-> FALSE, bottom |-> "", wordline |-> "", footer |-> <<>>]

(***************************************************************************)
(* Inputs: the /status/compact answers the device may receive.             *)
(***************************************************************************)
MaxEntries == 5

Svc(name, up) == [name |-> JStr(name), is_up |-> JBool(up)]

\* n well-formed service entries, alternately up and down
Entries(n) == [i \in 1 .. n |-> Svc("svc" \o ToString(i), i % 2 = 1)]

DocFull ==
  [bottom_line |-> JStr("Backup of nas01 failed at 3am!"),
   word |-> JStr("sesquipedalian-words"),
   expr_state |-> JStr("warning"),
   expr_message |-> JStr("check backups"),
   services |-> JArr(<<Svc("homeassistant-core-1", TRUE), Svc("pihole", FALSE)>>),
   server_time |-> JStr("2024-03-05T14:30:00")]

\* "{}" : every field absent
DocBare ==
  [bottom_line |-> JNull, word |-> JNull, expr_state |-> JNull,
   expr_message |-> JNull, services |-> JNoArr, server_time |-> JNull]

\* every field present with the wrong JSON type
DocWrongTypes ==
  [bottom_line |-> JNum("7"), word |-> JBool(TRUE), expr_state |-> JNum("3"),
   expr_message |-> JNum("0"), services |-> [t |-> "string", items |-> <<>>],
   server_time |-> JNum("1709649000")]

\* a non-matching server_time, a name of exactly 16 characters, an entry
\* without name and with a numeric is_up
DocBadTime ==
  [bottom_line |-> JStr("All systems nominal"),
   word |-> JStr("zeal"),
   expr_state |-> JStr("happy"),
   expr_message |-> JStr(""),
   services |-> JArr(<<Svc("dns-resolver-01a", FALSE), [name |-> JNull, is_up |-> JNum("1")]>>),
   server_time |-> JStr("not-a-date")]

\* the expression state sent with n entries: the named states the other
\* payloads do not carry, and a name the display does not know
ExprOf(n) ==
  IF n = 3 THEN "thinking" ELSE IF n = 4 THEN "error" ELSE "sleepy"

\* n entries, a later, matching server_time and a bottom line of exactly 22
\* characters
DocN(n) ==
  [bottom_line |-> JStr("Disk 91% full on nas01"),
   word |-> JNull,
   expr_state |-> JStr(ExprOf(n)),
   expr_message |-> JNull,
   services |-> JArr(Entries(n)),
   server_time |-> JStr("2024-03-05T14:30:45")]

Docs == {DocFull, DocBare, DocWrongTypes, DocBadTime} \cup {DocN(n) : n \in 3 .. MaxEntries}

OkResponse(doc) ==
  [begin |-> TRUE, code |-> HTTP_CODE_OK, wellformed |-> TRUE, need |-> 1024, doc |-> doc]

FailedResponses ==
  {[OkResponse(DocFull) EXCEPT !.begin = FALSE],
   [OkResponse(DocFull) EXCEPT !.code = 404],
   [OkResponse(DocFull) EXCEPT !.wellformed = FALSE],
   [OkResponse(DocFull) EXCEPT !.need = JSON_BUF_SIZE + 1]}

Responses ==
  {OkResponse(d) : d \in Docs} \cup FailedResponses
    \cup {[OkResponse(DocBare) EXCEPT !.need = JSON_BUF_SIZE]}

\* WiFi.status() values the connect loop may read
WlStatuses == {"WL_CONNECTED", "WL_DISCONNECTED", "WL_NO_SSID_AVAIL"}

\* epoch at boot as learnt from NTP; 0 stands for a failed sync
NtpEpochs == {1709648900}

\* how long one loop() iteration may last: the delay plus the work before it
LoopDurations == {LOOP_DELAY_MS, LOOP_DELAY_MS + 39600, LOOP_DELAY_MS + 44800}

(***************************************************************************)
(* State machine.                                                          *)
(***************************************************************************)
\* time(nullptr) at true uptime u (seconds since boot until NTP answers)
WallTime(epoch, u) == epoch + (u \div 1000)

\* stands for "no request was made" in the record of the last iteration
NoResponse == [OkResponse(DocBare) EXCEPT !.begin = FALSE, !.code = 0]

\* ev records the last loop() iteration: whether it polled, the result of
\* fetchStatus, whether it drew, the gate's subtraction, the true time since
\* the previous attempt (-1: none) and the answer it got
NoEvent == [kind |-> "none", ok |-> FALSE, drawn |-> FALSE, elapsed |-> 0,
            now_ms |-> 0, since |-> -1, resp |-> NoResponse]

\* history of the fetch attempts: none made yet
NoAttempt == [made |-> FALSE, ok |-> FALSE, won |-> FALSE, out |-> StatusState]

\* variant: last_poll starts one interval in the past
Init_PollAtOnce ==
  /\ pc = "boot"
  /\ link = "WL_IDLE_STATUS"
  /\ polls = 0
  /\ ntp_epoch = 0
  /\ uptime = 0
  /\ last_poll = USub(0, POLL_INTERVAL_MS + 1)
  /\ last_state = StatusState
  /\ screen = BlankScreen
  /\ boot_log = <<>>
  /\ ev = NoEvent
  /\ iters = 0
  /\ poll_up = -1
  /\ fails = 0
  /\ attempt = NoAttempt

\* lines 28-33 and the state at power-on
Init ==
  /\ pc = "boot"
  /\ link = "WL_IDLE_STATUS"
  /\ polls = 0
  /\ ntp_epoch = 0
  /\ uptime = 0
  /\ last_poll = 0
  /\ last_state = StatusState
  /\ screen = BlankScreen
  /\ boot_log = <<>>
  /\ ev = NoEvent
  /\ iters = 0
  /\ poll_up = -1
  /\ fails = 0
  /\ attempt = NoAttempt

\* variant: setup() draws the placeholder without calling syncTime
SetupNext_NoSync(stage) ==
  CASE stage = "boot" -> "connecting"
    [] stage = "connecting" -> "placeholder"
    [] stage = "timesync" -> "placeholder"
    [] stage = "placeholder" -> "ready"

\* the order of the calls in setup(), lines 212-221
SetupNext(stage) ==
  CASE stage = "boot" -> "connecting"
    [] stage = "connecting" -> "timesync"
    [] stage = "timesync" -> "placeholder"
    [] stage = "placeholder" -> "ready"

\* setup() up to WiFi.begin: lines 212-215 and 36-38
SetupBegin ==
  /\ pc = "boot"
  /\ pc' = SetupNext(pc)
  /\ screen' = BlankScreen
  /\ boot_log' = Append(boot_log, "begin")
  /\ UNCHANGED <<link, polls, ntp_epoch, uptime, last_poll, last_state, ev, iters, poll_up, fails, attempt>>

\* variant: the connect loop gives up after two unsuccessful polls
ConnectDone_RetryLimit(status, n) == status = "WL_CONNECTED" \/ n >= 2

\* the exit test of the connect loop, line 39
ConnectDone(status, n) == status = "WL_CONNECTED"

\* one evaluation of the connect loop condition and, if it holds, its body
connectWiFi ==
  /\ pc = "connecting"
  /\ \E status \in WlStatuses :
       /\ link' = status
       /\ IF ConnectDone(status, polls)
            THEN /\ pc' = SetupNext(pc)
                 /\ boot_log' = Append(boot_log, "associated")
                 /\ UNCHANGED <<polls, uptime>>
            ELSE /\ polls < MaxPolls
                 /\ polls' = polls + 1
                 /\ uptime' = uptime + WIFI_POLL_DELAY_MS
                 /\ UNCHANGED <<pc, boot_log>>
  /\ UNCHANGED <<ntp_epoch, last_poll, last_state, screen, ev, iters, poll_up, fails, attempt>>

\* lines 48-60: one attempt, waiting at most NTP_WAIT_MS
syncTime ==
  /\ pc = "timesync"
  /\ \E epoch \in NtpEpochs \cup {0} :
       /\ ntp_epoch' = epoch
       /\ uptime' = uptime + (IF epoch = 0 THEN NTP_WAIT_MS ELSE 0)
  /\ pc' = SetupNext(pc)
  /\ boot_log' = Append(boot_log, "timesync")
  /\ UNCHANGED <<link, polls, last_poll, last_state, screen, ev, iters, poll_up, fails, attempt>>

\* line 220
SetupDraw ==
  /\ pc = "placeholder"
  /\ screen' = drawScreen(last_state, TRUE, WallTime(ntp_epoch, uptime))
  /\ pc' = SetupNext(pc)
  /\ boot_log' = Append(boot_log, "render")
  /\ UNCHANGED <<link, polls, ntp_epoch, uptime, last_poll, last_state, ev, iters, poll_up, fails, attempt>>

\* variant: the deadline lp + interval is compared without wraparound
PollDue_NoRollover(now_ms, lp) == now_ms > lp + POLL_INTERVAL_MS

\* variant: now is compared with the deadline lp + interval, itself reduced
\* to the width of the counter
PollDue_Deadline(now_ms, lp) == now_ms > (lp + POLL_INTERVAL_MS) % MillisMod

\* variant: the gate also opens when exactly the interval has elapsed
PollDue_AtLeast(now_ms, lp) == USub(now_ms, lp) >= POLL_INTERVAL_MS

\* the gate of line 225
PollDue(now_ms, lp) == USub(now_ms, lp) > POLL_INTERVAL_MS

\* variant: the panel is redrawn in every iteration
loopBody_AlwaysDraw(state, lp, now_ms, resp) ==
  IF PollDue(now_ms, lp)
    THEN LET r == fetchStatus(state, resp)
         IN [fetched |-> TRUE, ok |-> r.ok, state |-> r.out,
             draw |-> TRUE, offline |-> ~r.ok, last_poll |-> now_ms]
    ELSE [fetched |-> FALSE, ok |-> FALSE, state |-> state,
          draw |-> TRUE, offline |-> FALSE, last_poll |-> lp]

\* variant: the panel is drawn without the offline flag
loopBody_NeverOffline(state, lp, now_ms, resp) ==
  IF PollDue(now_ms, lp)
    THEN LET r == fetchStatus(state, resp)
         IN [fetched |-> TRUE, ok |-> r.ok, state |-> r.out,
             draw |-> TRUE, offline |-> FALSE, last_poll |-> now_ms]
    ELSE [fetched |-> FALSE, ok |-> FALSE, state |-> state,
          draw |-> FALSE, offline |-> FALSE, last_poll |-> lp]

\* variant: only a successful fetch restarts the interval
loopBody_StampOnSuccess(state, lp, now_ms, resp) ==
  IF PollDue(now_ms, lp)
    THEN LET r == fetchStatus(state, resp)
         IN [fetched |-> TRUE, ok |-> r.ok, state |-> r.out,
             draw |-> TRUE, offline |-> ~r.ok,
             last_poll |-> IF r.ok THEN now_ms ELSE lp]
    ELSE [fetched |-> FALSE, ok |-> FALSE, state |-> state,
          draw |-> FALSE, offline |-> FALSE, last_poll |-> lp]

\* variant: once a snapshot is stored a failed fetch is drawn as if online
loopBody_StaleAsOnline(state, lp, now_ms, resp) ==
  IF PollDue(now_ms, lp)
    THEN LET r == fetchStatus(state, resp)
         IN [fetched |-> TRUE, ok |-> r.ok, state |-> r.out,
             draw |-> TRUE, offline |-> ~r.ok /\ r.out.bottom_line = "",
             last_poll |-> now_ms]
    ELSE [fetched |-> FALSE, ok |-> FALSE, state |-> state,
          draw |-> FALSE, offline |-> FALSE, last_poll |-> lp]

\* lines 224-229: what one iteration does to the globals and to the panel
loopBody(state, lp, now_ms, resp) ==
  IF PollDue(now_ms, lp)
    THEN LET r == fetchStatus(state, resp)
         IN [fetched |-> TRUE, ok |-> r.ok, state |-> r.out,
             draw |-> TRUE, offline |-> ~r.ok, last_poll |-> now_ms]
    ELSE [fetched |-> FALSE, ok |-> FALSE, state |-> state,
          draw |-> FALSE, offline |-> FALSE, last_poll |-> lp]

\* one iteration of loop() lasting d ms, the network answering resp; wrapped
\* keeps the true uptime inside one period of the counter
LoopIteration(d, resp, wrapped) ==
  LET now_ms == Millis(uptime)
  IN \E b \in {loopBody(last_state, last_poll, now_ms, resp)} :
     /\ b.fetched <=> resp # NoResponse
     /\ last_state' = b.state
     /\ last_poll' = b.last_poll
     /\ screen' = IF b.draw
                    THEN drawScreen(b.state, b.offline,
                                    WallTime(ntp_epoch, uptime + d - LOOP_DELAY_MS))
                    ELSE screen
     /\ ev' = [kind |-> IF b.fetched THEN "poll" ELSE "idle", ok |-> b.ok,
               drawn |-> b.draw,
               elapsed |-> USub(now_ms, last_poll), now_ms |-> now_ms,
               since |-> IF b.fetched /\ poll_up # -1 THEN uptime - poll_up ELSE -1,
               resp |-> resp]
     /\ poll_up' = IF wrapped THEN -1 ELSE IF b.fetched THEN uptime ELSE poll_up
     /\ attempt' = IF b.fetched
                     THEN [made |-> TRUE, ok |-> b.ok, won |-> attempt.won \/ b.ok,
                           out |-> b.state]
                     ELSE attempt
     /\ fails' = IF ~b.fetched THEN fails
                 ELSE IF b.ok THEN 0
                 ELSE IF fails < MaxFails THEN fails + 1 ELSE fails
     /\ uptime' = IF wrapped THEN (uptime + d) % MillisMod ELSE uptime + d

\* loop(), lines 223-231, for at most MaxIter iterations
loop ==
  /\ pc = "ready"
  /\ iters < MaxIter
  /\ \E d \in LoopDurations, resp \in Responses \cup {NoResponse} :
       LoopIteration(d, resp, FALSE)
  /\ iters' = iters + 1
  /\ UNCHANGED <<pc, link, polls, ntp_epoch, boot_log>>

Next == SetupBegin \/ connectWiFi \/ syncTime \/ SetupDraw \/ loop

Spec == Init /\ [][Next]_vars

(***************************************************************************)
(* The unbounded run: loop() is called again and again by the core, with   *)
(* iteration lengths that keep the state space finite.                     *)
(***************************************************************************)
LiveDurations == {MillisMod \div 4, MillisMod \div 2}

LiveResponses ==
  {OkResponse(DocBadTime), OkResponse(DocBare), [OkResponse(DocFull) EXCEPT !.code = 404]}

\* loop(), lines 223-231, without a limit on the iterations
loopLive ==
  /\ pc = "ready"
  /\ \E d \in LiveDurations, resp \in LiveResponses \cup {NoResponse} :
       LoopIteration(d, resp, TRUE)
  /\ UNCHANGED <<pc, link, polls, ntp_epoch, boot_log, iters>>

NextLive == SetupBegin \/ connectWiFi \/ syncTime \/ SetupDraw \/ loopLive

SpecLive == Init /\ [][NextLive]_vars /\ WF_vars(loopLive)

(***************************************************************************)
(* Properties.                                                             *)
(***************************************************************************)
\* the last iteration attempted a fetch
Polled == ev.kind = "poll"

\* an answer fetchStatus must reject: connection-open failure, status other
\* than 200, malformed JSON, or a document beyond the 4096-byte pool
FailingResponse(resp) ==
  \/ ~resp.begin
  \/ resp.code # 200
  \/ ~resp.wellformed
  \/ resp.need > 4096

Min(a, b) == IF a < b THEN a ELSE b

\* C1: a fetch attempt that fails (connection-open failure, status other
\* than 200, malformed JSON, oversized payload) leaves every field of
\* last_state as it was before the attempt, whatever fetches preceded it.
C1_FailedFetchKeepsState ==
  [][(iters' # iters /\ ev'.kind = "poll" /\ (FailingResponse(ev'.resp) \/ ~ev'.ok))
       => (~ev'.ok /\ last_state' = last_state)]_vars

\* a parse failure hit a snapshot that an earlier fetch had filled
C1_Witness ==
  /\ Polled /\ ~ev.ok /\ ~ev.resp.wellformed
  /\ last_state.service_count > 0 /\ last_state.server_time # 0

\* C2: every fetch attempt in Ready is followed, within the same iteration
\* and so before the next attempt, by a render of last_state whose offline
\* flag is the negation of the attempt's outcome, and the device stays in
\* Ready after a failure.
C2_RenderFollowsFetch ==
  Polled =>
    /\ pc = "ready"
    /\ screen.offline = ~ev.ok
    /\ (FailingResponse(ev.resp) => screen.offline)
    /\ screen = drawScreen(last_state, ~ev.ok, WallTime(ntp_epoch, uptime - LOOP_DELAY_MS))

\* a failed attempt rendered stale data as offline
C2_Witness ==
  /\ Polled /\ ~ev.ok /\ ev.resp.code = 404
  /\ screen.offline /\ Len(screen.rows) > 0 /\ pc = "ready"

\* C3: service_count never exceeds 4; a successful fetch of N entries
\* stores min(N,4) services, the first ones in payload order, and entries
\* after the 4th do not make the fetch fail.
C3_ServiceCap ==
  /\ last_state.service_count <= 4
  /\ (Polled /\ ~FailingResponse(ev.resp)) =>
       LET items == IF ev.resp.doc.services.t = "array"
                      THEN ev.resp.doc.services.items ELSE <<>>
           n == Min(Len(items), 4)
       IN /\ ev.ok
          /\ last_state.service_count = n
          /\ \A i \in 1 .. n :
               /\ items[i].name.t = "string" =>
                    last_state.services[i - 1].name = items[i].name.v
               /\ items[i].is_up.t = "bool" =>
                    last_state.services[i - 1].is_up = (items[i].is_up.v = "true")

\* a payload of five entries was fetched and four were kept
C3_Witness ==
  /\ Polled /\ ev.ok
  /\ Len(ev.resp.doc.services.items) > 4
  /\ last_state.service_count = 4
  /\ last_state.services[3].name = "svc4"

\* the counted part of a snapshot: the text fields, the count, the first
\* service_count services and the server time
View(st) ==
  [bottom_line |-> st.bottom_line, word |-> st.word, expr_state |-> st.expr_state,
   expr_message |-> st.expr_message, service_count |-> st.service_count,
   services |-> [i \in 1 .. st.service_count |-> st.services[i - 1]],
   server_time |-> st.server_time]

\* the payload's server_time is a string from which sscanf converts six integers
TimeMatches(doc) == doc.server_time.t = "string" /\ Len(Sscanf(doc.server_time.v)) = 6

\* C4: after a successful fetch whose payload has server_time absent or not
\* matching YYYY-MM-DDTHH:MM:SS the snapshot's server_time is the unknown
\* sentinel 0, whatever was fetched before; a matching server_time stores
\* the corresponding absolute time; neither case fails the fetch.
C4_UnparsableTimeIsUnknown ==
  (Polled /\ ~FailingResponse(ev.resp)) =>
    /\ ev.ok
    /\ ~TimeMatches(ev.resp.doc) => last_state.server_time = 0
    /\ ev.resp.doc.server_time = JStr("2024-03-05T14:30:00") =>
         last_state.server_time = 1709649000

\* C5: a successful fetch replaces the whole snapshot: the counted fields
\* after it are those the same payload gives from the empty snapshot, so no
\* field depends on the previous value of last_state.
C5_ResultIndependentOfPrior ==
  (Polled /\ ev.ok) => View(last_state) = View(Extract(StatusState, ev.resp.doc))

\* C6: after a successful fetch bottom_line, word and expr_state hold the
\* payload's string, or "All good", "None", "idle" when the field is absent
\* or wrong-typed, and such a field never fails a structurally valid payload.
C6_DefaultSubstitution ==
  (Polled /\ ~FailingResponse(ev.resp)) =>
    LET doc == ev.resp.doc
    IN /\ ev.ok
       /\ last_state.bottom_line =
            (IF doc.bottom_line.t = "string" THEN doc.bottom_line.v ELSE "All good")
       /\ last_state.word = (IF doc.word.t = "string" THEN doc.word.v ELSE "None")
       /\ last_state.expr_state =
            (IF doc.expr_state.t = "string" THEN doc.expr_state.v ELSE "idle")

\* a payload whose fields are all wrong-typed was fetched successfully
C6_Witness ==
  /\ Polled /\ ev.ok
  /\ ev.resp.doc.bottom_line.t = "number" /\ last_state.bottom_line = "All good"
  /\ ev.resp.doc.word.t = "bool" /\ last_state.word = "None"
  /\ ev.resp.doc.expr_state.t = "number" /\ last_state.expr_state = "idle"

\* the last step was an iteration of loop()
Iterated == ev.kind \in {"idle", "poll"}

\* C7 as stated: an iteration attempts a fetch if and only if at least
\* 45000 ms have elapsed since the recorded attempt time, the case of
\* exactly 45000 ms included.
C7_FetchIffAtLeastInterval ==
  Iterated => (Polled <=> ev.elapsed >= 45000)

\* C7 amended: an iteration attempts a fetch if and only if more than
\* 45000 ms have elapsed since the recorded attempt time (at exactly
\* 45000 ms it does not), so consecutive attempts are more than 45000 ms
\* apart.
C7_FetchIffMoreThanInterval ==
  Iterated =>
    /\ Polled <=> ev.elapsed > 45000
    /\ (Polled /\ ev.since # -1) => ev.since > 45000

\* an iteration ran with exactly 45000 ms elapsed and did not fetch
C7_Witness == ev.kind = "idle" /\ ev.elapsed = 45000 /\ poll_up # -1

\* C8 as stated: the display is rendered in every loop iteration, also in
\* those that attempt no fetch.
C8_RenderEveryIteration == Iterated => ev.drawn

\* C8 amended: the display is rendered in exactly the loop iterations that
\* attempt a fetch; an iteration in which the timer has not elapsed draws
\* nothing and leaves the panel as it was.
C8_RenderOnlyWithFetch ==
  [][iters' # iters =>
       /\ ev'.drawn <=> ev'.kind = "poll"
       /\ ev'.kind = "idle" => screen' = screen]_vars

\* an iteration without fetch left an earlier fetch's render on the panel
C8_Witness ==
  /\ ev.kind = "idle" /\ ~ev.drawn
  /\ poll_up # -1 /\ screen.drawn /\ screen.wordline # "Word: "

\* C9: the startup events happen once each and in the order association,
\* one time sync attempt, one offline render of the empty snapshot, Ready,
\* whether or not the sync succeeds, and no fetch is attempted before Ready.
C9_StartupOrder ==
  /\ pc = "boot" => boot_log = <<>>
  /\ pc = "connecting" => boot_log = <<"begin">>
  /\ pc = "timesync" => boot_log = <<"begin", "associated">>
  /\ pc = "placeholder" => boot_log = <<"begin", "associated", "timesync">>
  /\ pc = "ready" => boot_log = <<"begin", "associated", "timesync", "render">>
  /\ pc \in {"boot", "connecting", "timesync", "placeholder", "ready"}
  /\ pc \in {"boot", "connecting", "timesync"} => ~screen.drawn
  /\ pc # "ready" =>
       ev.kind = "none" /\ last_state = StatusState /\ last_poll = 0 /\ poll_up = -1
  /\ (pc = "ready" /\ iters = 0) =>
       screen = drawScreen(StatusState, TRUE, WallTime(ntp_epoch, uptime))
  /\ (pc = "ready" /\ poll_up = -1) =>
       /\ screen.drawn /\ screen.offline /\ screen.bottom = "API offline"
       /\ screen.no_services /\ screen.clock = <<"No time">>

\* Ready was entered after a failed time sync, with the placeholder drawn
C9_Witness ==
  /\ pc = "ready" /\ iters = 0 /\ ntp_epoch = 0 /\ polls > 0
  /\ screen.drawn /\ screen.offline

\* C10: connectWiFi returns only when the link reports associated, however
\* many polls reported otherwise; while the link has not associated the
\* device stays in Connecting and neither syncs time, renders nor fetches.
C10_ConnectOnlyOnAssociation ==
  /\ pc \in {"timesync", "placeholder", "ready"} => link = "WL_CONNECTED"
  /\ link # "WL_CONNECTED" =>
       /\ pc \in {"boot", "connecting"}
       /\ ntp_epoch = 0 /\ ~screen.drawn /\ ev.kind = "none"
       /\ boot_log \in {<<>>, <<"begin">>}
       /\ uptime = polls * 500

\* two polls in a row reported no association and the device still connects
C10_Witness == pc = "connecting" /\ polls >= 2 /\ link # "WL_CONNECTED"

\* C11: in Ready the decision to attempt a fetch depends on the elapsed
\* time only, not on earlier outcomes: after one or two consecutive
\* failures, as after a success, another attempt follows, and attempts
\* occur again and again while loop() keeps being called.
C11_RetryForever ==
  /\ [][(pc = "ready" /\ uptime' # uptime) =>
          (ev'.kind = "poll" <=> USub(Millis(uptime), last_poll) > POLL_INTERVAL_MS)]_vars
  /\ (pc = "ready") ~> Polled
  /\ \A k \in 1 .. (MaxFails - 1) : (pc = "ready" /\ fails = k) ~> (fails # k)

\* a third attempt in a row failed: it was made after two failures
C11_Witness == Polled /\ ~ev.ok /\ fails >= 3 /\ pc = "ready"

\* a step that draws the screen: the placeholder render of setup, or a loop
\* iteration that rendered
RenderStep ==
  \/ pc = "placeholder" /\ pc' = "ready"
  \/ pc = "ready" /\ uptime' # uptime /\ ev'.drawn

\* C12: a render with the offline flag set draws the literal "API offline"
\* as the bottom line whatever bottom line is stored, and rendering modifies
\* no field of the snapshot: the stored snapshot after an offline render is
\* the one before it.
C12_OfflineBottomLine ==
  [][(RenderStep /\ screen'.offline) =>
       (screen'.bottom = "API offline" /\ last_state' = last_state)]_vars

\* an offline render while a fetched bottom line is stored
C12_Witness ==
  /\ Polled /\ ~ev.ok
  /\ screen.offline /\ screen.bottom = "API offline"
  /\ last_state.bottom_line = "Backup of nas01 failed at 3am!"

\* the first min(Len(s), n) characters of s
Prefix(s, n) == SubSeq(s, 1, Min(Len(s), n))

\* C13: the drawn bottom line is the first min(len, 22) characters of the
\* bottom text, each drawn service name the first min(len, 16) characters of
\* the stored name, and the word line the first min(len, 22) characters of
\* "Word: " followed by the stored word; texts within budget are unchanged.
C13_Truncation ==
  screen.drawn =>
    /\ screen.bottom =
         Prefix(IF screen.offline THEN "API offline" ELSE last_state.bottom_line, 22)
    /\ screen.wordline = Prefix("Word: " \o last_state.word, 22)
    /\ \A i \in 1 .. Len(screen.rows) :
         screen.rows[i].name = Prefix(last_state.services[i - 1].name, 16)

\* a bottom line of 30, a service name of 20 and a word of 20 characters
\* are on screen, cut to 22, 16 and 22 (prefix included) characters
C13_Witness ==
  /\ Polled /\ ev.ok
  /\ Len(last_state.bottom_line) = 30 /\ Len(screen.bottom) = 22
  /\ Len(last_state.services[0].name) = 20 /\ Len(screen.rows[1].name) = 16
  /\ Len(last_state.word) = 20 /\ screen.wordline = "Word: sesquipedalian-w"

\* the glyph the display assigns to an expression state
Glyph(e) ==
  CASE e \in {"warning", "error"} -> ":O"
    [] e = "thinking" -> ":|"
    [] e = "happy" -> ":)"
    [] OTHER -> "._"

\* C14: the face glyph is a function of the stored expression state alone:
\* alarmed for "warning" and "error", neutral for "thinking", smiling for
\* "happy", the default glyph for every other value ("" , "idle", unknown
\* names); a payload without a string expression.state renders the default.
C14_FaceGlyph ==
  /\ screen.drawn => screen.face = Glyph(last_state.expr_state)
  /\ (Polled /\ ev.ok /\ ev.resp.doc.expr_state.t # "string") => screen.face = "._"

\* "error" is on screen as the alarmed glyph
C14_Witness ==
  Polled /\ ev.ok /\ last_state.expr_state = "error" /\ screen.face = ":O"

\* a step that is one iteration of loop()
IterationStep == pc = "ready" /\ uptime' # uptime

\* C15: last_poll changes only in an iteration that attempts a fetch, where
\* it becomes the time read at the start of that iteration whether the fetch
\* succeeds or fails; an idle iteration leaves it unchanged.
C15_LastPollUpdate ==
  [][/\ (last_poll' # last_poll) => (IterationStep /\ ev'.kind = "poll")
     /\ IterationStep =>
          last_poll' = IF ev'.kind = "poll" THEN Millis(uptime) ELSE last_poll]_vars

\* a failed attempt moved last_poll to the time read at its start
C15_Witness ==
  Polled /\ ~ev.ok /\ last_poll = ev.now_ms /\ last_poll > POLL_INTERVAL_MS

\* C16: the service area shows one row per stored service, in stored order,
\* marked UP in green or DN in red after is_up; the line "No services" is
\* drawn, with no rows, exactly when the stored count is 0.
C16_ServiceRows ==
  screen.drawn =>
    /\ Len(screen.rows) = last_state.service_count
    /\ \A i \in 1 .. Len(screen.rows) :
         LET svc == last_state.services[i - 1]
         IN /\ screen.rows[i].icon = (IF svc.is_up THEN "UP" ELSE "DN")
            /\ screen.rows[i].color = (IF svc.is_up THEN "TFT_GREEN" ELSE "TFT_RED")
            /\ screen.rows[i].name = Prefix(svc.name, 16)
    /\ screen.no_services <=> last_state.service_count = 0
    /\ screen.no_services => screen.rows = <<>>

\* two services of different status are on screen in payload order
C16_Witness ==
  /\ Polled /\ ev.ok /\ last_state.service_count = 2
  /\ screen.rows[1].icon = "UP" /\ screen.rows[1].name = "homeassistant-co"
  /\ screen.rows[2].icon = "DN" /\ screen.rows[2].name = "pihole"
  /\ ~screen.no_services

\* the wall-clock time at which the iteration that just ended drew the panel
DrawTime == WallTime(ntp_epoch, uptime - LOOP_DELAY_MS)

\* C17: the clock area shows "No time" exactly when the stored server_time
\* is 0; otherwise the time shown is the current wall-clock time, the same
\* for every value of server_time.
C17_ClockIsWallTime ==
  /\ screen.drawn => (screen.clock = <<"No time">> <=> last_state.server_time = 0)
  /\ (Polled /\ last_state.server_time # 0) =>
       /\ screen.clock[1] = formatTwo((DrawTime \div 3600) % 24) \o ":"
                               \o formatTwo((DrawTime \div 60) % 60)
       /\ \A st \in {1, 86400, last_state.server_time + 3600} :
            DrawClock([server_time |-> st], DrawTime) = screen.clock

\* a clock is on screen while the wall clock differs from the stored time
C17_Witness ==
  /\ Polled /\ ev.ok /\ last_state.server_time = 1709649000
  /\ Len(screen.clock) = 2 /\ DrawTime # last_state.server_time
  /\ ntp_epoch # 0

\* C18: a render without the offline flag shows a snapshot written by a
\* successful fetch of the same iteration: whenever the panel's latest
\* render is not offline, the most recent fetch attempt succeeded and
\* last_state is its result; until a fetch has succeeded every render is
\* offline and shows the initial empty snapshot.
C18_OnlineRenderIsFresh ==
  /\ [][(RenderStep /\ ~screen'.offline) =>
          (IterationStep /\ ev'.kind = "poll" /\ ev'.ok /\ last_state' = attempt'.out)]_vars
  /\ []((screen.drawn /\ ~screen.offline) =>
          /\ attempt.made /\ attempt.ok
          /\ last_state = attempt.out
          /\ screen.bottom = Prefix(last_state.bottom_line, 22))
  /\ [](~attempt.won =>
          /\ last_state = StatusState
          /\ screen.drawn =>
               /\ screen.offline
               /\ screen.clock = <<"No time">> /\ screen.face = "._"
               /\ screen.no_services /\ screen.wordline = "Word: ")

\* a fetched snapshot stays on screen through an idle iteration
C18_Witness ==
  /\ ev.kind = "idle" /\ screen.drawn /\ ~screen.offline
  /\ attempt.ok /\ last_state.bottom_line = "All systems nominal"

\* C19: the poll gate works across wraparound of the millisecond counter:
\* an iteration attempts a fetch exactly when the true time since the last
\* attempt (less than one period of the counter) exceeds 45000 ms, also
\* when the counter has wrapped to a value below last_poll; wraparound
\* causes neither extra fetches nor a stall.
C19_GateAcrossWraparound ==
  [][(IterationStep /\ poll_up # -1 /\ uptime - poll_up < MillisMod) =>
       (ev'.kind = "poll" <=> uptime - poll_up > POLL_INTERVAL_MS)]_vars

\* a fetch made after the counter wrapped: the time read is numerically
\* below the last_poll it was compared with
C19_Witness ==
  /\ Polled /\ ev.since > POLL_INTERVAL_MS
  /\ poll_up >= MillisMod /\ poll_up - ev.since < MillisMod
  /\ ev.now_ms < Millis(poll_up - ev.since)

\* C20: last_poll starts at 0 and is compared with the uptime, so no fetch
\* is attempted while the uptime is at most 45000 ms: the first fetch is made
\* by the first iteration whose uptime exceeds 45000 ms, and until then the
\* panel keeps the offline placeholder drawn by setup.
C20_FirstFetchAfterInterval ==
  /\ [][(IterationStep /\ ~attempt.made) =>
          (ev'.kind = "poll" <=> uptime > POLL_INTERVAL_MS)]_vars
  /\ []((pc = "ready" /\ ~attempt.made) =>
          /\ last_poll = 0
          /\ Iterated => ev.now_ms <= POLL_INTERVAL_MS
          /\ screen.drawn /\ screen.offline /\ screen.bottom = "API offline"
          /\ screen.clock = <<"No time">> /\ screen.no_services)

\* the first fetch, made after an idle iteration, to an API that answers
C20_Witness ==
  /\ Polled /\ ev.ok /\ ev.since = -1 /\ iters >= 2
  /\ ev.now_ms > POLL_INTERVAL_MS
====
